---- MODULE Spec2Model ----
(***************************************************************************)
(* Model of the tic-tac-toe component (src/src/components/tic-tac-toe.tsx) *)
(* : the outcome evaluation, the three move strategies and the session     *)
(* (React state, the two effects, the 500 ms computer-move timer).         *)
(*                                                                         *)
(* React's scheduling (React 18, createRoot), as far as the component      *)
(* depends on it:                                                          *)
(*  - the state variables hold the values of the last committed render;    *)
(*    every handler closes over exactly these values;                      *)
(*  - useEffect callbacks are passive: they run after the commit, with the *)
(*    values of that commit, and always before the next commit.  fx is the *)
(*    set of effects of the last commit that have not run yet;             *)
(*  - the effects of a commit caused by a click or a select (a discrete    *)
(*    event) run synchronously, within the event; the commit that renders  *)
(*    the effects' own updates, and the commit of the timer callback's     *)
(*    updates, leave their effects pending until the browser has painted;  *)
(*  - an event dispatched while fx is not empty reads the committed        *)
(*    values; the pending effects then run before the render, their        *)
(*    updates queued behind the handler's;                                 *)
(*  - the timeout is 500 ms and the effects settle within a frame: the     *)
(*    timer callback only runs when no effect is pending.                  *)
(***************************************************************************)
EXTENDS Integers, Sequences, FiniteSets, TLC

(* ------------------------------ bounds -------------------------------- *)

\* Math.random() is drawn from { k / RandDenom : k \in 0 .. RandDenom-1 }.
RandDenom == 9

\* The strategies are applied, as pure functions, to every board with at
\* most MaxEmpty empty cells (and to the two opening boards of makeHardMove
\* and the board X X _ / _ O _ / _ _ _).
MaxEmpty == 5

(* --------------------------- board and lines -------------------------- *)

Cells == 0 .. 8

\* SquareValue: "X" | "O" | null ("E" stands for null)
SquareValue == {"X", "O", "E"}

Difficulty == {"easy", "medium", "hard"}

AllBoards == [Cells -> SquareValue]

\* Array(9).fill(null)
EmptyBoard == [c \in Cells |-> "E"]

\* the `lines` table of calculateWinner and of findWinningMove, in order
Lines ==
    << <<0, 1, 2>>, <<3, 4, 5>>, <<6, 7, 8>>,
       <<0, 3, 6>>, <<1, 4, 7>>, <<2, 5, 8>>,
       <<0, 4, 8>>, <<2, 4, 6>> >>

Count(board, v) == Cardinality({c \in Cells : board[c] = v})

\* board.every((cell) => cell !== null)
IsFull(board) == \A c \in Cells : board[c] # "E"

\* board.map((square, i) => (square === null ? i : -1)).filter((i) => i !== -1)
RECURSIVE AvailableFrom(_, _)
AvailableFrom(board, i) ==
    IF i > 8 THEN << >>
    ELSE IF board[i] = "E" THEN <<i>> \o AvailableFrom(board, i + 1)
    ELSE AvailableFrom(board, i + 1)

AvailableMoves(board) == AvailableFrom(board, 0)

\* Math.floor(Math.random() * n), the draw being r / RandDenom
RandomIndex(r, n) == (r * n) \div RandDenom

\* Math.random() < 0.3 and Math.random() < 0.5
Below30(r) == 10 * r < 3 * RandDenom
Below50(r) == 2 * r < RandDenom

(* --------------------------- calculateWinner -------------------------- *)

NoWinner == [player |-> "E", line |-> << >>]

\* the line test of calculateWinner without `squares[a] &&`
LineCompleteNoNullTest(sq, k) ==
    /\ sq[Lines[k][1]] = sq[Lines[k][2]]
    /\ sq[Lines[k][1]] = sq[Lines[k][3]]

LineComplete(sq, k) ==
    /\ sq[Lines[k][1]] # "E"
    /\ sq[Lines[k][1]] = sq[Lines[k][2]]
    /\ sq[Lines[k][1]] = sq[Lines[k][3]]

\* the lines the for loop would accept
CompleteLines(sq) == {k \in 1 .. Len(Lines) : LineComplete(sq, k)}

\* calculateWinner keeping the last complete line of the table instead of
\* returning at the first
calculateWinnerLastLine(sq) ==
    LET complete == CompleteLines(sq)
    IN  IF complete = {} THEN NoWinner
        ELSE LET k == CHOOSE j \in complete : \A m \in complete : m <= j
             IN  [player |-> sq[Lines[k][1]], line |-> Lines[k]]

\* the loop returns at the first complete line of the table; null is NoWinner
calculateWinner(sq) ==
    LET complete == CompleteLines(sq)
    IN  IF complete = {} THEN NoWinner
        ELSE LET k == CHOOSE j \in complete : \A m \in complete : j <= m
             IN  [player |-> sq[Lines[k][1]], line |-> Lines[k]]

(* --------------------------- findWinningMove -------------------------- *)

\* findWinningMove with only the first of its three patterns
CanWinFirstPattern(board, player, k) ==
    LET a == Lines[k][1]
        b == Lines[k][2]
        c == Lines[k][3]
    IN  board[a] = player /\ board[b] = player /\ board[c] = "E"

CanWin(board, player, k) ==
    LET a == Lines[k][1]
        b == Lines[k][2]
        c == Lines[k][3]
    IN  \/ board[a] = player /\ board[b] = player /\ board[c] = "E"
        \/ board[a] = player /\ board[b] = "E" /\ board[c] = player
        \/ board[a] = "E" /\ board[b] = player /\ board[c] = player

\* findWinningMove returning the first cell of the line in every pattern
EmptyOfLineFirstCell(board, k) == Lines[k][1]

EmptyOfLine(board, k) ==
    LET a == Lines[k][1]
        b == Lines[k][2]
        c == Lines[k][3]
    IN  IF board[a] = "E" THEN a ELSE IF board[b] = "E" THEN b ELSE c

RECURSIVE WinningMoveFrom(_, _, _)
WinningMoveFrom(board, player, k) ==
    IF k > Len(Lines) THEN -1
    ELSE IF CanWin(board, player, k) THEN EmptyOfLine(board, k)
    ELSE WinningMoveFrom(board, player, k + 1)

findWinningMove(board, player) == WinningMoveFrom(board, player, 1)

(* ------------------------------ strategies ---------------------------- *)

\* Every Math.random() call is a draw r \in Rand, standing for r / RandDenom;
\* a strategy is modelled by the set of the results it can return, over every
\* outcome of its draws.
Rand == 0 .. (RandDenom - 1)

\* availableMoves[Math.floor(Math.random() * availableMoves.length)], or -1
RandomMove(availableMoves, r) ==
    IF Len(availableMoves) > 0
    THEN availableMoves[RandomIndex(r, Len(availableMoves)) + 1]
    ELSE -1

\* r1, r2, r3: the draws of the three Math.random() calls
makeEasyMove(board) ==
    LET winningMove == findWinningMove(board, "O")
        blockingMove == findWinningMove(board, "X")
        availableMoves == AvailableMoves(board)
    IN  { IF Below30(r1) /\ winningMove # -1 THEN winningMove
          ELSE IF Below30(r1) /\ Below50(r2) /\ blockingMove # -1 THEN blockingMove
          ELSE RandomMove(availableMoves, r3) : r1, r2, r3 \in Rand }

Corners == <<0, 2, 6, 8>>

\* the corners without the filter on board[i] === null
AvailableCornersUnfiltered(board) == Corners

AvailableCorners(board) == SelectSeq(Corners, LAMBDA i : board[i] = "E")

\* makeMediumMove with the block tried before the win
makeMediumMoveBlockFirst(board) ==
    LET winningMove == findWinningMove(board, "O")
        blockingMove == findWinningMove(board, "X")
        availableCorners == AvailableCorners(board)
        availableMoves == AvailableMoves(board)
    IN  IF blockingMove # -1 THEN {blockingMove}
        ELSE IF winningMove # -1 THEN {winningMove}
        ELSE IF board[4] = "E" THEN {4}
        ELSE IF Len(availableCorners) > 0
             THEN {availableCorners[RandomIndex(r, Len(availableCorners)) + 1] : r \in Rand}
        ELSE {RandomMove(availableMoves, r) : r \in Rand}

makeMediumMove(board) ==
    LET winningMove == findWinningMove(board, "O")
        blockingMove == findWinningMove(board, "X")
        availableCorners == AvailableCorners(board)
        availableMoves == AvailableMoves(board)
    IN  IF winningMove # -1 THEN {winningMove}
        ELSE IF blockingMove # -1 THEN {blockingMove}
        ELSE IF board[4] = "E" THEN {4}
        ELSE IF Len(availableCorners) > 0
             THEN {availableCorners[RandomIndex(r, Len(availableCorners)) + 1] : r \in Rand}
        ELSE {RandomMove(availableMoves, r) : r \in Rand}

\* Number.NEGATIVE_INFINITY / Number.POSITIVE_INFINITY: beyond every score
NEGATIVE_INFINITY == -1000
POSITIVE_INFINITY == 1000

\* the cells the for loops visit: those with board[i] === null
EmptyCells(board) == {i \in Cells : board[i] = "E"}

Maximum(S) == CHOOSE x \in S : \A y \in S : y <= x

Minimum(S) == CHOOSE x \in S : \A y \in S : x <= y

\* The for loops are folds of Math.max / Math.min over the scores of the empty
\* cells, starting from the infinity.
RECURSIVE minimax(_, _, _)
minimax(board, depth, isMaximizing) ==
    LET result == calculateWinner(board)
        undecided == result.player = "E" /\ ~IsFull(board)
    IN  CASE result.player = "O" -> 10 - depth
          [] result.player = "X" -> depth - 10
          [] result.player = "E" /\ IsFull(board) -> 0
          [] undecided /\ isMaximizing ->
                Maximum({NEGATIVE_INFINITY} \cup
                        {minimax([board EXCEPT ![i] = "O"], depth + 1, FALSE) :
                            i \in EmptyCells(board)})
          [] undecided /\ ~isMaximizing ->
                Minimum({POSITIVE_INFINITY} \cup
                        {minimax([board EXCEPT ![i] = "X"], depth + 1, TRUE) :
                            i \in EmptyCells(board)})

\* makeHardMove scoring a cell as if the computer moved again
HardScoreWrongPly(board, i) == minimax([board EXCEPT ![i] = "O"], 0, TRUE)

\* the score makeHardMove gives to cell i: board[i] = "O"; minimax(board, 0,
\* false); board[i] = null
HardScore(board, i) == minimax([board EXCEPT ![i] = "O"], 0, FALSE)

\* the for loop of makeHardMove without `bestScore = score`: every empty cell
\* replaces bestMove
HardBestMoveLastCell(board) ==
    IF EmptyCells(board) = {} THEN -1 ELSE Maximum(EmptyCells(board))

\* the for loop of makeHardMove: bestMove is the first cell whose score is
\* greater than every score before it, or -1
HardBestMove(board) ==
    LET score == [i \in EmptyCells(board) |-> HardScore(board, i)]
        bestScore == Maximum({NEGATIVE_INFINITY} \cup {score[i] : i \in EmptyCells(board)})
        best == {i \in EmptyCells(board) :
                    score[i] = bestScore /\ score[i] > NEGATIVE_INFINITY}
    IN  IF best = {} THEN -1 ELSE Minimum(best)

\* makeHardMove drawing the corner with Math.floor(Math.random() * 3)
makeHardMoveThreeCorners(board) ==
    LET emptyCells == Count(board, "E")
    IN  IF emptyCells = 9 THEN {4}
        ELSE IF emptyCells = 8 /\ board[4] = "X"
             THEN {Corners[RandomIndex(r, 3) + 1] : r \in Rand}
        ELSE {HardBestMove(board)}

makeHardMove(board) ==
    LET emptyCells == Count(board, "E")
    IN  IF emptyCells = 9 THEN {4}
        ELSE IF emptyCells = 8 /\ board[4] = "X"
             THEN {Corners[RandomIndex(r, 4) + 1] : r \in Rand}
        ELSE {HardBestMove(board)}

(* ------------------------------- session ------------------------------ *)

VARIABLES
    squares,       \* useState: the board of the last committed render
    isPlayerTurn,  \* useState
    gameOver,      \* useState
    status,        \* useState
    difficulty,    \* useState
    timer,         \* the pending setTimeout and the values its closure holds
    fx,            \* effects of the last commit that have not run yet
    lastOp,        \* history: the last handler that was invoked
    resetFrom,     \* history: the session in which the last reset was invoked
    call           \* history: the last strategy invocation and its result

core == <<squares, isPlayerTurn, gameOver, status, difficulty, timer, fx>>

vars ==
    <<squares, isPlayerTurn, gameOver, status, difficulty, timer, fx,
      lastOp, resetFrom, call>>

NoTimer == [pending |-> FALSE, squares |-> EmptyBoard, difficulty |-> "medium"]

NoCall == [fn |-> "none", board |-> EmptyBoard, move |-> -1]

NoReset == [timer |-> FALSE, gameOver |-> FALSE, terminal |-> FALSE, settled |-> TRUE]

\* the committed render, its timer and its pending effects, as one value
Session(sq, turn, over, st, diff, tm, pending) ==
    [squares |-> sq, isPlayerTurn |-> turn, gameOver |-> over, status |-> st,
     difficulty |-> diff, timer |-> tm, fx |-> pending]

Current == Session(squares, isPlayerTurn, gameOver, status, difficulty, timer, fx)

Install(s) ==
    /\ squares' = s.squares
    /\ isPlayerTurn' = s.isPlayerTurn
    /\ gameOver' = s.gameOver
    /\ status' = s.status
    /\ difficulty' = s.difficulty
    /\ timer' = s.timer
    /\ fx' = s.fx

\* the winner / board-full tests of the status effect
IsTerminal(sq) == calculateWinner(sq) # NoWinner \/ IsFull(sq)

\* the status effect's setStatus value
StatusText(sq, turn) ==
    LET winner == calculateWinner(sq)
    IN  IF winner # NoWinner
        THEN (IF winner.player = "X" THEN "You win!" ELSE "Computer wins!")
        ELSE IF IsFull(sq) THEN "It's a draw!"
        ELSE IF turn THEN "Your turn (X)" ELSE "Computer's turn (O)..."

\* the timer effect without the gameOver test
TimerEffectNoGameOverCheck(sq, turn, over, diff) ==
    IF ~turn
    THEN [pending |-> TRUE, squares |-> sq, difficulty |-> diff]
    ELSE NoTimer

\* the timer effect: the cleanup of its previous run (clearTimeout), then its
\* body, which closes over the render's squares and difficulty
TimerEffect(sq, turn, over, diff) ==
    IF ~turn /\ ~over
    THEN [pending |-> TRUE, squares |-> sq, difficulty |-> diff]
    ELSE NoTimer

\* the timer effect without its cleanup: a timeout once set is never cleared
FlushedTimerNoCleanup(s) ==
    IF "timer" \in s.fx /\ ~s.isPlayerTurn /\ ~s.gameOver
    THEN TimerEffect(s.squares, s.isPlayerTurn, s.gameOver, s.difficulty)
    ELSE s.timer

\* the timer of session s once the pending effects of s have run
FlushedTimer(s) ==
    IF "timer" \in s.fx
    THEN TimerEffect(s.squares, s.isPlayerTurn, s.gameOver, s.difficulty)
    ELSE s.timer

\* gameOver and status once the updates of the pending effects of s are
\* applied to v, the value without them (the committed value, or the value a
\* handler has set: the effects' updates are queued behind the handler's)
QueuedGameOver(s, v) ==
    IF "status" \in s.fx /\ IsTerminal(s.squares) THEN TRUE ELSE v

QueuedStatus(s, v) ==
    IF "status" \in s.fx THEN StatusText(s.squares, s.isPlayerTurn) ELSE v

\* the effects whose dependencies differ between session s and the next
\* render: [isPlayerTurn, gameOver] and [squares, isPlayerTurn, winner];
\* squares is compared by reference (newRef: setSquares was called), and a
\* winner object is a new object in every render
ChangedDeps(s, sq, newRef, turn, over) ==
    (IF turn # s.isPlayerTurn \/ over # s.gameOver THEN {"timer"} ELSE {})
    \cup
    (IF \/ newRef
        \/ turn # s.isPlayerTurn
        \/ calculateWinner(sq) # NoWinner
        \/ calculateWinner(s.squares) # NoWinner
     THEN {"status"} ELSE {})

\* a handler's updates (sq, turn, over, st, diff) are dispatched in session s:
\* the pending effects of s run, then the next render is committed
Dispatch(s, sq, newRef, turn, over, st, diff, tm) ==
    LET over1 == QueuedGameOver(s, over)
    IN  Session(sq, turn, over1, QueuedStatus(s, st), diff, tm,
                ChangedDeps(s, sq, newRef, turn, over1))

\* the pending effects of session s run; their updates, if any, are rendered
\* and committed
FlushEffects(s) ==
    LET over1 == QueuedGameOver(s, s.gameOver)
        st1 == QueuedStatus(s, s.status)
    IN  Session(s.squares, s.isPlayerTurn, over1, st1, s.difficulty,
                FlushedTimer(s),
                IF over1 # s.gameOver \/ st1 # s.status
                THEN ChangedDeps(s, s.squares, FALSE, s.isPlayerTurn, over1)
                ELSE {})

Init ==
    /\ squares = EmptyBoard
    /\ isPlayerTurn = TRUE
    /\ gameOver = FALSE
    /\ status = "Your turn (X)"
    /\ difficulty = "medium"
    /\ timer = NoTimer
    /\ fx = {}
    /\ lastOp = "init"
    /\ resetFrom = NoReset
    /\ call = NoCall

\* the guard of handleClick without the turn test
ClickIgnoredNoTurnCheck(i) == gameOver \/ squares[i] # "E"

\* the guard of handleClick without the occupied-cell test
ClickIgnoredNoOccupiedCheck(i) == gameOver \/ ~isPlayerTurn

\* the guard of handleClick: does the click return at once
ClickIgnored(i) == gameOver \/ squares[i] # "E" \/ ~isPlayerTurn

HandleClick(i) ==
    /\ lastOp' = IF ClickIgnored(i) THEN "ignored" ELSE "click"
    /\ resetFrom' = NoReset
    /\ call' = NoCall
    /\ IF ClickIgnored(i)
       THEN UNCHANGED core
       ELSE Install(FlushEffects(
                Dispatch(Current, [squares EXCEPT ![i] = "X"], TRUE, FALSE,
                         gameOver, status, difficulty, FlushedTimer(Current))))

\* the four updates of resetGame, with difficulty diff
Reset(diff) ==
    /\ resetFrom' = [timer |-> timer.pending, gameOver |-> gameOver,
                     terminal |-> IsTerminal(squares), settled |-> fx = {}]
    /\ call' = NoCall
    /\ Install(FlushEffects(
          Dispatch(Current, EmptyBoard, TRUE, TRUE, FALSE, "Your turn (X)",
                   diff, FlushedTimer(Current))))

ResetGame ==
    /\ lastOp' = "reset"
    /\ Reset(difficulty)

\* handleDifficultyChange without resetGame(): setDifficulty only
HandleDifficultyChangeNoReset(value) ==
    /\ lastOp' = "difficulty"
    /\ resetFrom' = NoReset
    /\ call' = NoCall
    /\ Install(FlushEffects(
          Dispatch(Current, squares, FALSE, isPlayerTurn, gameOver, status,
                   value, FlushedTimer(Current))))

HandleDifficultyChange(value) ==
    /\ lastOp' = "difficulty"
    /\ Reset(value)

\* the switch of makeComputerMove: the results the selected strategy can
\* return on board
StrategyMoves(diff, board) ==
    CASE diff = "easy" -> makeEasyMove(board)
      [] diff = "medium" -> makeMediumMove(board)
      [] diff = "hard" -> makeHardMove(board)
      [] OTHER -> makeMediumMove(board)

\* makeComputerMove without setIsPlayerTurn(true)
MakeComputerMoveKeepsTurn(move) ==
    /\ lastOp' = "timer"
    /\ resetFrom' = NoReset
    /\ call' = [fn |-> timer.difficulty, board |-> timer.squares, move |-> move]
    /\ Install(Dispatch(Current,
                        IF move # -1
                        THEN [timer.squares EXCEPT ![move] = "O"]
                        ELSE squares,
                        move # -1, isPlayerTurn, gameOver, status, difficulty, NoTimer))

\* makeComputerMove, run by the timeout with the values of its closure
MakeComputerMove(move) ==
    /\ lastOp' = "timer"
    /\ resetFrom' = NoReset
    /\ call' = [fn |-> timer.difficulty, board |-> timer.squares, move |-> move]
    /\ Install(Dispatch(Current,
                        IF move # -1
                        THEN [timer.squares EXCEPT ![move] = "O"]
                        ELSE squares,
                        move # -1, TRUE, gameOver, status, difficulty, NoTimer))

TimerFire ==
    /\ timer.pending
    /\ fx = {}
    /\ \E move \in StrategyMoves(timer.difficulty, timer.squares) :
          MakeComputerMove(move)

RunEffects ==
    /\ fx # {}
    /\ UNCHANGED <<lastOp, resetFrom, call>>
    /\ Install(FlushEffects(Current))

Next ==
    \/ \E i \in Cells : HandleClick(i)
    \/ ResetGame
    \/ \E value \in Difficulty : HandleDifficultyChange(value)
    \/ TimerFire
    \/ RunEffects

Spec == Init /\ [][Next]_vars

(* ---------------------- the strategies as functions ------------------- *)

\* the boards the strategies are applied to
StrategyBoards ==
    {b \in AllBoards : Count(b, "E") <= MaxEmpty}
    \cup {EmptyBoard, [EmptyBoard EXCEPT ![4] = "X"]}
    \cup {[EmptyBoard EXCEPT ![0] = "X", ![1] = "X", ![4] = "O"]}

InitStrategy ==
    /\ squares \in StrategyBoards
    /\ isPlayerTurn = TRUE
    /\ gameOver = FALSE
    /\ status = "Your turn (X)"
    /\ difficulty = "medium"
    /\ timer = NoTimer
    /\ fx = {}
    /\ lastOp = "init"
    /\ resetFrom = NoReset
    /\ call = NoCall

\* the strategy of difficulty diff is called, once, on the board
CallStrategy(diff) ==
    /\ call = NoCall
    /\ \E move \in StrategyMoves(diff, squares) :
          call' = [fn |-> diff, board |-> squares, move |-> move]
    /\ lastOp' = "call"
    /\ UNCHANGED <<core, resetFrom>>

NextStrategy == \E diff \in Difficulty : CallStrategy(diff)

SpecStrategy == InitStrategy /\ [][NextStrategy]_vars

(* ------------------- the writes of the strategies -------------------- *)

\* makeHardMove and minimax write the board they are given (board[i] = "O",
\* board[i] = null).  Here the array is threaded through the loops: a call
\* returns its result together with the array as it leaves it.
\* makeEasyMove, makeMediumMove and findWinningMove only read the board (map,
\* filter and corners.filter build new arrays).

\* Math.max / Math.min
Max2(a, b) == IF a >= b THEN a ELSE b
Min2(a, b) == IF a <= b THEN a ELSE b

\* the for loop of minimax having visited the cells 0 .. i: the array and
\* bestScore.  acc is the loop after cell i - 1.
RECURSIVE minimaxInPlace(_, _, _)
RECURSIVE MinimaxLoop(_, _, _, _)
MinimaxLoop(board, depth, isMaximizing, i) ==
    IF i < 0
    THEN [board |-> board,
          bestScore |-> IF isMaximizing THEN NEGATIVE_INFINITY ELSE POSITIVE_INFINITY]
    ELSE LET acc == MinimaxLoop(board, depth, isMaximizing, i - 1)
         IN  IF acc.board[i] # "E" THEN acc
             ELSE LET written == [acc.board EXCEPT ![i] = IF isMaximizing THEN "O" ELSE "X"]
                      r == minimaxInPlace(written, depth + 1, ~isMaximizing)
                  IN  [board |-> [r.board EXCEPT ![i] = "E"],
                       bestScore |-> IF isMaximizing
                                     THEN Max2(r.score, acc.bestScore)
                                     ELSE Min2(r.score, acc.bestScore)]

minimaxInPlace(board, depth, isMaximizing) ==
    LET result == calculateWinner(board)
    IN  CASE result.player = "O" -> [score |-> 10 - depth, board |-> board]
          [] result.player = "X" -> [score |-> depth - 10, board |-> board]
          [] result.player = "E" /\ IsFull(board) -> [score |-> 0, board |-> board]
          [] result.player = "E" /\ ~IsFull(board) ->
                LET loop == MinimaxLoop(board, depth, isMaximizing, 8)
                IN  [score |-> loop.bestScore, board |-> loop.board]

\* the for loop of makeHardMove without `board[i] = null`
RECURSIVE HardLoopNoUndo(_, _)
HardLoopNoUndo(board, i) ==
    IF i < 0
    THEN [board |-> board, bestScore |-> NEGATIVE_INFINITY, bestMove |-> -1]
    ELSE LET acc == HardLoopNoUndo(board, i - 1)
         IN  IF acc.board[i] # "E" THEN acc
             ELSE LET r == minimaxInPlace([acc.board EXCEPT ![i] = "O"], 0, FALSE)
                  IN  IF r.score > acc.bestScore
                      THEN [board |-> r.board, bestScore |-> r.score, bestMove |-> i]
                      ELSE [board |-> r.board, bestScore |-> acc.bestScore,
                            bestMove |-> acc.bestMove]

\* the for loop of makeHardMove having visited the cells 0 .. i
RECURSIVE HardLoop(_, _)
HardLoop(board, i) ==
    IF i < 0
    THEN [board |-> board, bestScore |-> NEGATIVE_INFINITY, bestMove |-> -1]
    ELSE LET acc == HardLoop(board, i - 1)
         IN  IF acc.board[i] # "E" THEN acc
             ELSE LET r == minimaxInPlace([acc.board EXCEPT ![i] = "O"], 0, FALSE)
                      undone == [r.board EXCEPT ![i] = "E"]
                  IN  IF r.score > acc.bestScore
                      THEN [board |-> undone, bestScore |-> r.score, bestMove |-> i]
                      ELSE [board |-> undone, bestScore |-> acc.bestScore,
                            bestMove |-> acc.bestMove]

\* the results of makeHardMove with the array as the call leaves it
makeHardMoveInPlace(board) ==
    LET emptyCells == Count(board, "E")
    IN  IF emptyCells = 9 THEN {[move |-> 4, board |-> board]}
        ELSE IF emptyCells = 8 /\ board[4] = "X"
             THEN {[move |-> Corners[RandomIndex(r, 4) + 1], board |-> board] : r \in Rand}
        ELSE LET loop == HardLoop(board, 8)
             IN  {[move |-> loop.bestMove, board |-> loop.board]}

\* the switch of makeComputerMove, each result with the array newSquares as
\* the strategy leaves it
StrategyCalls(diff, board) ==
    CASE diff = "easy" -> {[move |-> m, board |-> board] : m \in makeEasyMove(board)}
      [] diff = "medium" -> {[move |-> m, board |-> board] : m \in makeMediumMove(board)}
      [] diff = "hard" -> makeHardMoveInPlace(board)
      [] OTHER -> {[move |-> m, board |-> board] : m \in makeMediumMove(board)}

\* makeComputerMove on a copy of the board (squares.slice()): the strategy
\* call, then newSquares[move] = "O".  call records the board on entry
\* (board), the array when the strategy returns (after) and the array that
\* is passed to setSquares (placed).
CallInPlace(diff) ==
    /\ call = NoCall
    /\ \E r \in StrategyCalls(diff, squares) :
          call' = [fn |-> diff, board |-> squares, move |-> r.move,
                   after |-> r.board,
                   placed |-> IF r.move # -1
                              THEN [r.board EXCEPT ![r.move] = "O"]
                              ELSE r.board]
    /\ lastOp' = "call"
    /\ UNCHANGED <<core, resetFrom>>

NextInPlace == \E diff \in Difficulty : CallInPlace(diff)

SpecInPlace == InitStrategy /\ [][NextInPlace]_vars

(* ------------------------ the outcome of a board --------------------- *)

\* The outcome the status effect (and minimax) derives from a board:
\* calculateWinner first, then board.every(cell => cell !== null).
Outcome(sq) ==
    LET winner == calculateWinner(sq)
    IN  IF winner # NoWinner
        THEN [kind |-> "Won", player |-> winner.player, line |-> winner.line]
        ELSE IF IsFull(sq)
             THEN [kind |-> "Draw", player |-> "E", line |-> << >>]
             ELSE [kind |-> "InProgress", player |-> "E", line |-> << >>]

InitOutcome ==
    /\ squares \in AllBoards
    /\ isPlayerTurn = TRUE
    /\ gameOver = FALSE
    /\ status = "Your turn (X)"
    /\ difficulty = "medium"
    /\ timer = NoTimer
    /\ fx = {}
    /\ lastOp = "init"
    /\ resetFrom = NoReset
    /\ call = NoCall

\* the outcome of the board is evaluated, once; call records it
Evaluate ==
    /\ call = NoCall
    /\ call' = [fn |-> "evaluate", board |-> squares, move |-> -1,
                outcome |-> Outcome(squares)]
    /\ lastOp' = "call"
    /\ UNCHANGED <<core, resetFrom>>

NextOutcome == Evaluate

SpecOutcome == InitOutcome /\ [][NextOutcome]_vars

(* ------------------------------- claims ------------------------------- *)

Marks == {"X", "O"}

\* some line of sq holds three p
HasLine(sq, p) ==
    \E k \in 1 .. Len(Lines) : \A j \in 1 .. 3 : sq[Lines[k][j]] = p

NoLine(sq) == \A p \in Marks : ~HasLine(sq, p)

\* X has moved and O has not answered yet
ComputerToMove(sq) == Count(sq, "X") = Count(sq, "O") + 1

\* the empty cells that complete a line of three p
WinningCells(sq, p) ==
    {c \in Cells : sq[c] = "E" /\ HasLine([sq EXCEPT ![c] = p], p)}

\* the last strategy call was made by one of the strategies in fns, on a
\* board without a complete line on which it is the computer's turn
CalledOnTurn(fns) ==
    /\ call.fn \in fns
    /\ NoLine(call.board)
    /\ ComputerToMove(call.board)

\* C1: at difficulty Hard no board holds a complete line of X, for every
\* sequence of legal clicks: a line of X only ever appears on a board that
\* already held a complete line of O when the click was made (such a click is
\* no legal move).
C1_HardNeverLoses ==
    difficulty = "hard" /\ HasLine(squares, "X") => HasLine(squares, "O")

\* a Hard game played to the end: the board is full and nobody has a line
C1_Witness ==
    /\ difficulty = "hard"
    /\ gameOver
    /\ IsFull(squares)
    /\ NoLine(squares)
    /\ status = "It's a draw!"

\* the board O O _ / X X _ / _ _ _ of the scenario
C2_Board == [c \in Cells |-> IF c \in {0, 1} THEN "O" ELSE IF c \in {3, 4} THEN "X" ELSE "E"]

\* C2: on a board without a complete line, with the computer to move and a
\* line of two O and an empty cell, makeMediumMove and makeHardMove return an
\* empty cell that completes a line of O; on the scenario board they return 2.
C2_TakesWin ==
    /\ CalledOnTurn({"medium", "hard"}) /\ WinningCells(call.board, "O") # {}
          => call.move \in WinningCells(call.board, "O")
    /\ call.fn \in {"medium", "hard"} /\ call.board = C2_Board => call.move = 2

\* makeHardMove wins although X threatens to win as well
C2_Witness ==
    /\ CalledOnTurn({"hard"})
    /\ WinningCells(call.board, "O") # {}
    /\ WinningCells(call.board, "X") # {}
    /\ call.move \in WinningCells(call.board, "O")

\* X has a one-move win and O has none
MustBlock(fns) ==
    /\ CalledOnTurn(fns)
    /\ WinningCells(call.board, "O") = {}
    /\ WinningCells(call.board, "X") # {}

\* C3, as claimed: with no winning move for O and a line of two X and an empty
\* cell, makeMediumMove and makeHardMove return the empty cell of such a line.
C3_Blocks ==
    MustBlock({"medium", "hard"}) => call.move \in WinningCells(call.board, "X")

\* the first empty cell, in ascending order
FirstEmpty(sq) == CHOOSE c \in Cells : sq[c] = "E" /\ \A d \in 0 .. (c - 1) : sq[d] # "E"

\* the board X X _ / _ O _ / _ _ _ of the scenario
C3_Board == [EmptyBoard EXCEPT ![0] = "X", ![1] = "X", ![4] = "O"]

\* C3, amended: makeMediumMove returns the empty cell of a line of two X;
\* makeHardMove does so when X has exactly one winning cell; when X has two or
\* more winning cells every move loses and makeHardMove returns the first
\* empty cell.  Medium and Hard return 2 on the scenario board.
C3_BlocksSingleThreat ==
    /\ MustBlock({"medium"}) => call.move \in WinningCells(call.board, "X")
    /\ MustBlock({"hard"}) /\ Cardinality(WinningCells(call.board, "X")) = 1
          => call.move \in WinningCells(call.board, "X")
    /\ MustBlock({"hard"}) /\ Cardinality(WinningCells(call.board, "X")) > 1
          => call.move = FirstEmpty(call.board)
    /\ call.fn \in {"medium", "hard"} /\ call.board = C3_Board => call.move = 2

\* makeHardMove blocks the one threat of X, and not with the first empty cell
C3_Witness ==
    /\ MustBlock({"hard"})
    /\ WinningCells(call.board, "X") = {call.move}
    /\ call.move # FirstEmpty(call.board)

\* C4: each strategy returns an empty cell of the board if there is one, and
\* -1 if the board is full, whatever the draws.
C4_MoveIsEmptyCell ==
    call.fn # "none" =>
        IF IsFull(call.board)
        THEN call.move = -1
        ELSE call.move \in Cells /\ call.board[call.move] = "E"

\* makeEasyMove returns the empty cell of a line of two X on a board that has
\* a complete line already and a single other empty cell
C4_Witness ==
    /\ call.fn = "easy"
    /\ ~NoLine(call.board)
    /\ Count(call.board, "E") = 2
    /\ call.move \in WinningCells(call.board, "X")

\* C5: after a reset or a difficulty change the board is empty and stays so
\* until the player clicks; a board without X holds no O, the turn is the
\* player's and no computer move is pending on it.
C5_ResetDiscardsPendingMove ==
    /\ lastOp \in {"reset", "difficulty"} => squares = EmptyBoard
    /\ Count(squares, "X") = 0 =>
          squares = EmptyBoard /\ isPlayerTurn /\ ~timer.pending

\* a reset came while the computer's move was pending
C5_Witness ==
    /\ lastOp = "reset"
    /\ resetFrom.timer
    /\ resetFrom.settled
    /\ ~resetFrom.terminal

\* C6, as claimed: once the effects have settled after resetGame or
\* handleDifficultyChange, the board is empty, the turn is the player's,
\* gameOver is false, there is no winning line and the status is the initial
\* text.
C6_ResetRestoresInitial ==
    lastOp \in {"reset", "difficulty"} /\ fx = {} =>
        /\ squares = EmptyBoard
        /\ isPlayerTurn
        /\ ~gameOver
        /\ calculateWinner(squares) = NoWinner
        /\ status = "Your turn (X)"

\* a step of handleClick
ClickStep == lastOp' \in {"click", "ignored"} /\ lastOp' # lastOp

\* C7: a click leaves the board, the turn, gameOver, the status, the
\* difficulty and the timer unchanged when it is the computer's turn or the
\* game is over; a click that changes anything has put an X on an empty cell,
\* so a click on an occupied cell changes nothing.
C7_IgnoredClickIsNoOp ==
    [][ClickStep =>
          /\ (gameOver \/ ~isPlayerTurn) => UNCHANGED core
          /\ \/ UNCHANGED core
             \/ \E i \in Cells :
                   /\ squares[i] = "E"
                   /\ squares' = [squares EXCEPT ![i] = "X"]]_vars

\* a click was ignored while the computer's move was pending
C7_Witness ==
    /\ lastOp = "ignored"
    /\ ~isPlayerTurn
    /\ ~gameOver
    /\ timer.pending

\* the board holds as many O as X, or one fewer
CountsAlternate(sq) ==
    \/ Count(sq, "O") = Count(sq, "X")
    \/ Count(sq, "O") + 1 = Count(sq, "X")

\* the step puts mark p on one empty cell
Places(p) ==
    \E i \in Cells : squares[i] = "E" /\ squares' = [squares EXCEPT ![i] = p]

\* C8: the number of O is the number of X or one fewer; a step that changes
\* the board clears it, or puts one X on a board with as many O as X, or puts
\* one O on a board with one more X than O.
C8_MarksAlternate ==
    /\ [](CountsAlternate(squares))
    /\ [][squares' # squares =>
            \/ squares' = EmptyBoard
            \/ Places("X") /\ Count(squares, "O") = Count(squares, "X")
            \/ Places("O") /\ Count(squares, "O") + 1 = Count(squares, "X")]_vars

\* the ninth mark is on the board
C8_Witness == Count(squares, "X") = 5 /\ Count(squares, "O") = 4

\* C9, as claimed: calculateWinner returns player p exactly when p fills a
\* line, and no board holds a line of X and a line of O.
C9_WinnerIsTheLineOwner ==
    /\ \A p \in Marks : calculateWinner(squares).player = p <=> HasLine(squares, p)
    /\ ~(HasLine(squares, "X") /\ HasLine(squares, "O"))

\* C10: makeComputerMove only runs on a board with an empty cell and no
\* complete line, and its strategy returns an empty cell, never -1.
C10_StrategyNeverOnTerminalBoard ==
    call.fn # "none" =>
        /\ ~IsFull(call.board)
        /\ NoLine(call.board)
        /\ call.move \in Cells
        /\ call.board[call.move] = "E"

\* the computer makes the eighth move of a game
C10_Witness ==
    /\ call.fn # "none"
    /\ Count(call.board, "E") = 2
    /\ squares = [call.board EXCEPT ![call.move] = "O"]

\* the board whose only mark is X in the centre
C11_CentreX == [EmptyBoard EXCEPT ![4] = "X"]

\* C11: makeHardMove returns 4 on the empty board and a corner on the board
\* whose only mark is X in the centre; before the call on that board, a call
\* returning c is possible for each corner c.
C11_HardOpening ==
    /\ call.fn = "hard" /\ call.board = EmptyBoard => call.move = 4
    /\ call.fn = "hard" /\ call.board = C11_CentreX => call.move \in {0, 2, 6, 8}
    /\ squares = C11_CentreX /\ call = NoCall =>
          \A c \in {0, 2, 6, 8} : ENABLED (CallStrategy("hard") /\ call'.move = c)

\* makeHardMove has returned the last corner on the centre-X board
C11_Witness ==
    /\ call.fn = "hard"
    /\ call.board = C11_CentreX
    /\ call.move = 8

\* the board has a complete line or no empty cell
BoardIsTerminal(sq) == ~NoLine(sq) \/ IsFull(sq)

\* C12, as claimed: once the effects have run, gameOver is true exactly when
\* the board has a complete line or no empty cell, and the status is "You
\* win!" with a line of X, "Computer wins!" with a line of O, "It's a draw!"
\* on a full board without a line, and otherwise "Your turn (X)" or
\* "Computer's turn (O)..." by the turn.
C12_StatusMapping ==
    fx = {} =>
        /\ gameOver <=> BoardIsTerminal(squares)
        /\ HasLine(squares, "X") => status = "You win!"
        /\ HasLine(squares, "O") => status = "Computer wins!"
        /\ NoLine(squares) /\ IsFull(squares) => status = "It's a draw!"
        /\ ~BoardIsTerminal(squares) /\ isPlayerTurn => status = "Your turn (X)"
        /\ ~BoardIsTerminal(squares) /\ ~isPlayerTurn => status = "Computer's turn (O)..."

\* C13, as claimed: no step puts an X on a board that has a complete line or
\* no empty cell.
C13_NoMoveAfterTerminal ==
    [][BoardIsTerminal(squares) => ~Places("X")]_vars

\* the game value, independent of minimax: O completes a line whatever X
\* plays, from board with O to move (oToMove) or X to move
RECURSIVE OForcesWin(_, _)
OForcesWin(board, oToMove) ==
    IF HasLine(board, "O") THEN TRUE
    ELSE IF HasLine(board, "X") \/ IsFull(board) THEN FALSE
    ELSE IF oToMove
         THEN \E i \in EmptyCells(board) : OForcesWin([board EXCEPT ![i] = "O"], FALSE)
         ELSE \A i \in EmptyCells(board) : OForcesWin([board EXCEPT ![i] = "X"], TRUE)

\* C14: when makeHardMove is called on a board from which O forces a win, the
\* cell it returns is empty and O still forces a win on the resulting board,
\* whatever X replies: the game cannot end in a draw or a win of X from there.
C14_HardKeepsForcedWin ==
    /\ CalledOnTurn({"hard"})
    /\ OForcesWin(call.board, TRUE)
    => /\ call.move \in Cells
       /\ call.board[call.move] = "E"
       /\ OForcesWin([call.board EXCEPT ![call.move] = "O"], FALSE)

\* makeHardMove, in a session, has made a move that does not win at once but
\* keeps the win forced
C14_Witness ==
    /\ lastOp = "timer"
    /\ CalledOnTurn({"hard"})
    /\ OForcesWin(call.board, TRUE)
    /\ squares = [call.board EXCEPT ![call.move] = "O"]
    /\ NoLine(squares)
    /\ OForcesWin(squares, FALSE)

\* the cells of line k
LineCells(k) == {Lines[k][j] : j \in 1 .. 3}

\* the board holds a line of X and a line of O
BothHaveLines(sq) == HasLine(sq, "X") /\ HasLine(sq, "O")

\* C15, as claimed: a board reached by legal play (a board that does not hold
\* lines of both players) has at most one complete line.
C15_AtMostOneLine ==
    ~BothHaveLines(squares) => Cardinality(CompleteLines(squares)) <= 1

\* C15, amended: two complete lines of the same player share a cell (one move
\* completed both), and calculateWinner then reports the first of them in the
\* order of its table; a line of X and a line of O are on the board together
\* only when removing one X leaves a board with as many X as O on which only O
\* has a line (the X was placed after the computer had won).
C15_LinesShareTheLastMove ==
    /\ \A k, j \in CompleteLines(squares) :
          squares[Lines[k][1]] = squares[Lines[j][1]]
             => LineCells(k) \cap LineCells(j) # {}
    /\ \A k \in CompleteLines(squares) :
          /\ calculateWinner(squares) # NoWinner
          /\ \E j \in CompleteLines(squares) :
                j <= k /\ calculateWinner(squares).line = Lines[j]
          /\ \A j \in CompleteLines(squares) :
                calculateWinner(squares).line = Lines[j] => j <= k
    /\ BothHaveLines(squares) =>
          \E c \in Cells :
             /\ squares[c] = "X"
             /\ LET before == [squares EXCEPT ![c] = "E"]
                IN  /\ HasLine(before, "O")
                    /\ ~HasLine(before, "X")
                    /\ Count(before, "X") = Count(before, "O")

\* the player has completed two lines with one click; the computer has none
C15_Witness ==
    /\ Cardinality(CompleteLines(squares)) = 2
    /\ ~HasLine(squares, "O")
    /\ lastOp = "click"
    /\ gameOver
    /\ status = "You win!"

\* ComputerThinking: the player has moved and the board is not terminal
Thinking == ~isPlayerTurn /\ ~BoardIsTerminal(squares)

\* a step of makeComputerMove
TimerStep == lastOp' = "timer" /\ (lastOp # "timer" \/ squares' # squares)

C17_BoardUnchangedByStrategy ==
    call.fn # "none" =>
        /\ call.after = call.board
        /\ \A c \in Cells : c # call.move => call.placed[c] = call.board[c]
        /\ call.move # -1 => call.placed[call.move] = "O"
        /\ call.fn = "hard" => call.move \in makeHardMove(call.board)

\* makeHardMove has searched a board with four empty cells and no line
C17_Witness ==
    /\ call.fn = "hard"
    /\ Count(call.board, "E") = 4
    /\ NoLine(call.board)
    /\ ComputerToMove(call.board)
    /\ call.after = call.board
    /\ call.placed # call.board

\* the reference order: rows 012, 345, 678, columns 036, 147, 258, diagonals
\* 048, 246
RefLines ==
    << <<0, 1, 2>>, <<3, 4, 5>>, <<6, 7, 8>>,
       <<0, 3, 6>>, <<1, 4, 7>>, <<2, 5, 8>>,
       <<0, 4, 8>>, <<2, 4, 6>> >>

\* line n of the reference holds three equal marks
RefComplete(sq, n) ==
    \E p \in Marks : \A j \in 1 .. 3 : sq[RefLines[n][j]] = p

\* the reference outcome of the claim
RefOutcome(sq) ==
    IF \E n \in 1 .. 8 : RefComplete(sq, n)
    THEN LET first == CHOOSE n \in 1 .. 8 :
                          /\ RefComplete(sq, n)
                          /\ \A m \in 1 .. (n - 1) : ~RefComplete(sq, m)
         IN  [kind |-> "Won", player |-> sq[RefLines[first][1]], line |-> RefLines[first]]
    ELSE IF \A c \in Cells : sq[c] \in Marks
         THEN [kind |-> "Draw", player |-> "E", line |-> << >>]
         ELSE [kind |-> "InProgress", player |-> "E", line |-> << >>]

\* C18: on every board of 9 cells the outcome derived from calculateWinner
\* and the full-board test is the reference outcome: Won with the mark and
\* the cells of the first complete line in the reference order, else Draw on
\* a full board, else InProgress.
C18_OutcomeAgreesWithReference ==
    call.fn = "evaluate" => call.outcome = RefOutcome(call.board)

\* a full board with two complete lines is a win, by the first of the lines
C18_Witness ==
    /\ call.fn = "evaluate"
    /\ IsFull(call.board)
    /\ Cardinality(CompleteLines(call.board)) = 2
    /\ call.outcome.kind = "Won"
    /\ call.outcome.line = <<3, 4, 5>>
    /\ call.outcome.player = "O"

\* neither player has a line with two own marks and an empty cell
NoThreat(sq) == WinningCells(sq, "O") = {} /\ WinningCells(sq, "X") = {}

\* the cells C19 allows: the centre, else the empty corners, else the empty
\* cells
C19_Allowed(sq) ==
    IF sq[4] = "E" THEN {4}
    ELSE IF \E c \in {0, 2, 6, 8} : sq[c] = "E"
         THEN {c \in {0, 2, 6, 8} : sq[c] = "E"}
         ELSE {c \in Cells : sq[c] = "E"}

\* C19: on a board with an empty cell and no line of two own marks and an
\* empty cell, makeMediumMove returns the centre if it is empty, else an
\* empty corner if there is one, else an empty cell; and before the call each
\* of these cells is a possible result.
C19_MediumPositional ==
    /\ call.fn = "medium" /\ ~IsFull(call.board) /\ NoThreat(call.board)
          => call.move \in C19_Allowed(call.board)
    /\ call = NoCall /\ ~IsFull(squares) /\ NoThreat(squares)
          => \A c \in C19_Allowed(squares) :
                ENABLED (CallStrategy("medium") /\ call'.move = c)

\* makeMediumMove has returned the last of three empty corners, the centre
\* being taken
C19_Witness ==
    /\ call.fn = "medium"
    /\ NoThreat(call.board)
    /\ call.board[4] # "E"
    /\ C19_Allowed(call.board) = {0, 2, 8}
    /\ call.move = 8

\* C20: the board and the difficulty a pending timeout holds in its closure
\* are the current ones, in every state, so the move is computed by the
\* strategy of the selected difficulty on the current board; after the
\* timeout has run, the board is the one the strategy was given plus the O.
C20_TimerUsesCurrentState ==
    /\ timer.pending => timer.squares = squares /\ timer.difficulty = difficulty
    /\ lastOp = "timer" =>
          /\ call.fn = difficulty
          /\ call.move \in Cells
          /\ squares = [call.board EXCEPT ![call.move] = "O"]

\* the difficulty was changed to easy, and in the new game the computer's
\* second move is pending
C20_Witness ==
    /\ difficulty = "easy"
    /\ timer.pending
    /\ timer.difficulty = "easy"
    /\ Count(squares, "X") = 2
    /\ Count(squares, "O") = 1

====
